---- MODULE Spec2Model ----
(***************************************************************************)
(* The OpenFlow SDK client (src/src/index.js): the constructor, run (the   *)
(* payment precondition, the submission, the bounded poll loop and the     *)
(* projection to a WorkflowResult) and getState, as a state machine over   *)
(* the calls made on one client.  An async method runs atomically from one *)
(* await of a network call or timer to the next; the server's responses    *)
(* are the inputs.                                                         *)
(*                                                                         *)
(* JavaScript values: an object is a function from its defined property    *)
(* names to their values, so an undefined property is one that is not in   *)
(* the DOMAIN; null is the string NULL.                                    *)
(***************************************************************************)
EXTENDS Integers, Sequences, FiniteSets, TLC

VARIABLES
    constructedWith,  \* the options the client was constructed with
    this,       \* the client: privateKey, baseUrl, pollInterval, maxPollAttempts, x402Fetch
    pc,         \* per call: "idle", "submit", "query", "sleep", "getState", "done"
    args,       \* per call: the arguments the call was made with
    execution,  \* per call: run's const execution (the ExecutionHandle)
    attempts,   \* per call: _pollForCompletion's let attempts
    state,      \* per call: the poll loop's const state (the last polled WorkflowState)
    outcome,    \* per call: how the promise settled: a returned value or a thrown error
    log         \* per call: the requests, responses, sleeps and wake-ups, in order

vars == <<constructedWith, this, pc, args, execution, attempts, state, outcome, log>>

(***************************************************************************)
(* Bounds of the model.                                                    *)
(***************************************************************************)
MaxPollOption == 3

(***************************************************************************)
(* JavaScript helpers.                                                     *)
(***************************************************************************)
NULL == "<null>"
Undefined == <<>>

Has(o, f) == f \in DOMAIN o

\* truthiness of a string-or-null value
TruthyStr(v) == v # "" /\ v # NULL
\* truthiness of a number
TruthyNum(n) == n # 0
\* o.f as a condition, for a string property and for a boolean property
TruthyStrProp(o, f) == Has(o, f) /\ TruthyStr(o[f])
TruthyBoolProp(o, f) == Has(o, f) /\ o[f]

\* { f: v } when v is defined, {} otherwise
Prop(f, o, g) == IF Has(o, g) THEN f :> o[g] ELSE Undefined

\* `${o.f}` in a template literal, for a string property
Template(o, f) == IF Has(o, f) THEN o[f] ELSE "undefined"

\* o.f || d, for a string property
OrElse(o, f, d) == IF TruthyStrProp(o, f) THEN o[f] ELSE d

\* how an async call settles
Return(v) == [type |-> "return", value |-> v]
Throw(name, message) == [type |-> "throw", name |-> name, message |-> message]

(***************************************************************************)
(* constructor(options = {})                                               *)
(***************************************************************************)
DefaultBaseUrl == "https://workflow-api.openflow.sh"
DefaultPollInterval == 2000
DefaultMaxPollAttempts == 150

\* a constructor that replaces only an absent option by its default
constructor_KeepsZero(options) ==
    LET privateKey == IF Has(options, "privateKey") /\ TruthyStr(options.privateKey)
                      THEN options.privateKey ELSE NULL
    IN  [ privateKey      |-> privateKey,
          baseUrl         |-> IF Has(options, "baseUrl") /\ TruthyStr(options.baseUrl)
                              THEN options.baseUrl ELSE DefaultBaseUrl,
          pollInterval    |-> IF Has(options, "pollInterval")
                              THEN options.pollInterval ELSE DefaultPollInterval,
          maxPollAttempts |-> IF Has(options, "maxPollAttempts")
                              THEN options.maxPollAttempts ELSE DefaultMaxPollAttempts,
          x402Fetch       |-> IF TruthyStr(privateKey) THEN "wrapFetchWithPayment" ELSE NULL ]

constructor(options) ==
    LET privateKey == IF Has(options, "privateKey") /\ TruthyStr(options.privateKey)
                      THEN options.privateKey ELSE NULL
    IN  [ privateKey      |-> privateKey,
          baseUrl         |-> IF Has(options, "baseUrl") /\ TruthyStr(options.baseUrl)
                              THEN options.baseUrl ELSE DefaultBaseUrl,
          pollInterval    |-> IF Has(options, "pollInterval") /\ TruthyNum(options.pollInterval)
                              THEN options.pollInterval ELSE DefaultPollInterval,
          maxPollAttempts |-> IF Has(options, "maxPollAttempts") /\ TruthyNum(options.maxPollAttempts)
                              THEN options.maxPollAttempts ELSE DefaultMaxPollAttempts,
          x402Fetch       |-> IF TruthyStr(privateKey) THEN "wrapFetchWithPayment" ELSE NULL ]

(***************************************************************************)
(* The server: the HTTP responses a fetch can resolve with, as             *)
(* [ok, status, text, json], and the faults it can reject with.            *)
(***************************************************************************)
Http(status, text, json) ==
    [ok |-> status >= 200 /\ status <= 299, status |-> status, text |-> text, json |-> json]

ExecutionIds == {"e1", "e2"}

Handle(id) ==
    [success |-> TRUE, executionId |-> id, workflowId |-> "w-" \o id,
     ipfsCid |-> "cid-submit-" \o id, pieceCid |-> "piece-" \o id,
     provider |-> "provider-" \o id, status |-> "processing"]

SubmitResponses ==
    { Http(402, "Payment Required", Undefined),
      Http(500, "{success:false,error:down}", [success |-> FALSE, error |-> "down"]),
      Http(200, "", [success |-> FALSE, error |-> "unknown slug"]),
      Http(200, "", [success |-> FALSE]) }
    \cup { Http(200, "", Handle(id)) : id \in ExecutionIds }

Snapshot(status, cid, data) ==
    [success |-> TRUE, executionId |-> "e1", workflowId |-> "w-e1", ipfsCid |-> cid]
    @@ status @@ data

NonTerminalStates ==
    { Snapshot("status" :> "processing", "cid-p", "data" :> [status |-> "processing"]),
      Snapshot("status" :> "queued", "cid-q", "data" :> [status |-> "queued"]),
      Snapshot(Undefined, "cid-n", Undefined) }

CompletedStates ==
    { Snapshot("status" :> "completed", "cid-final",
               "data" :> [status |-> "completed", output |-> "y2", completedTime |-> "t9"]),
      Snapshot("status" :> "completed", "cid-other", "data" :> [output |-> "o7"]),
      Snapshot("status" :> "completed", "cid-bare", Undefined) }

FailedStates ==
    { Snapshot("status" :> "failed", "cid-f", "data" :> [status |-> "failed", error |-> "bad input"]),
      Snapshot("status" :> "failed", "cid-g", "data" :> [status |-> "failed"]),
      Snapshot("status" :> "failed", "cid-h", Undefined) }

QueryResponses ==
    { Http(500, "Internal Server Error", Undefined),
      Http(404, "{success:false,error:gone}", [success |-> FALSE, error |-> "gone"]),
      Http(200, "", [success |-> FALSE, error |-> "not found"]),
      Http(200, "", [success |-> FALSE]) }
    \cup { Http(200, "", s) : s \in NonTerminalStates \cup CompletedStates \cup FailedStates }

\* what fetch rejects with on a network-level fault
Faults == { Throw("TypeError", "fetch failed") }

(***************************************************************************)
(* The events a call leaves in its log.                                    *)
(***************************************************************************)
Request(via, method, url, headers, body) ==
    [ev |-> "request", via |-> via, method |-> method, url |-> url,
     headers |-> headers, body |-> body]

\* the response is HTTP-successful and its payload carries success: true
Delivered(response) == response.ok /\ TruthyBoolProp(response.json, "success")

\* the answer to a request of the given method; the answer to the submission
\* and a failed answer are kept whole
Response(method, response) ==
    [ev |-> "response", to |-> method, good |-> Delivered(response)]
    @@ (IF Delivered(response) /\ method = "GET" THEN Undefined ELSE "response" :> response)
Rejection(method) == [ev |-> "rejection", to |-> method]
Sleep(ms) == [ev |-> "sleep", ms |-> ms]
Wake == [ev |-> "wake"]

(***************************************************************************)
(* run(slug, config = {}): the destructuring and the payment precondition. *)
(***************************************************************************)
InputOf(config) == IF Has(config, "input") THEN config.input ELSE "{}"
TestModeOf(config) == IF Has(config, "testMode") THEN config.testMode ELSE TRUE

\* a run that validates nothing
PaymentMissing_Unchecked(config) == FALSE

PaymentMissing(config) ==
    ~TruthyStr(this.privateKey) /\ ~TruthyStrProp(config, "xPayment")

ConfigurationError ==
    Throw("Error",
          "Either privateKey must be provided in OpenFlow constructor or xPayment header must be provided in config")

(***************************************************************************)
(* _executeWorkflow(slug, input, xPayment, testMode): the request it       *)
(* sends, and what it makes of the response.                               *)
(***************************************************************************)
\* a submission that attaches the caller's xPayment on the signed transport too
ExecuteRequest_AlwaysAttaches(slug, input, config, testMode) ==
    LET endpoint == IF testMode THEN "/test-workflow" ELSE "/workflow/:slug"
        url == this.baseUrl \o endpoint
        body == [slug |-> slug, input |-> input]
    IN  Request(IF TruthyStr(this.x402Fetch) THEN "x402Fetch" ELSE "fetch", "POST", url,
                ("Content-Type" :> "application/json")
                    @@ Prop("X-Payment", config, "xPayment"),
                body)

ExecuteRequest(slug, input, config, testMode) ==
    LET endpoint == IF testMode THEN "/test-workflow" ELSE "/workflow/:slug"
        url == this.baseUrl \o endpoint
        body == [slug |-> slug, input |-> input]
    IN  IF TruthyStr(this.x402Fetch)
        THEN Request("x402Fetch", "POST", url,
                     "Content-Type" :> "application/json", body)
        ELSE Request("fetch", "POST", url,
                     ("Content-Type" :> "application/json")
                         @@ Prop("X-Payment", config, "xPayment"),
                     body)

\* a response handling that does not look at the payload's success flag
ExecuteResult_SkipsSuccessFlag(response) ==
    IF ~response.ok
    THEN Throw("Error", "Workflow execution failed: " \o ToString(response.status)
                            \o " - " \o response.text)
    ELSE LET data == response.json
         IN  Return(Prop("executionId", data, "executionId")
                    @@ Prop("workflowId", data, "workflowId")
                    @@ Prop("ipfsCid", data, "ipfsCid")
                    @@ Prop("pieceCid", data, "pieceCid")
                    @@ Prop("provider", data, "provider")
                    @@ Prop("status", data, "status"))

ExecuteResult(response) ==
    IF ~response.ok
    THEN Throw("Error", "Workflow execution failed: " \o ToString(response.status)
                            \o " - " \o response.text)
    ELSE LET data == response.json
         IN  IF ~TruthyBoolProp(data, "success")
             THEN Throw("Error", "Workflow execution failed: "
                                     \o OrElse(data, "error", "Unknown error"))
             ELSE Return(Prop("executionId", data, "executionId")
                         @@ Prop("workflowId", data, "workflowId")
                         @@ Prop("ipfsCid", data, "ipfsCid")
                         @@ Prop("pieceCid", data, "pieceCid")
                         @@ Prop("provider", data, "provider")
                         @@ Prop("status", data, "status"))

(***************************************************************************)
(* _getWorkflowState(executionId): the request and the response.           *)
(***************************************************************************)
\* a state query sent like the submission, through the signed transport
StateRequest_Signed(executionId) ==
    Request(IF TruthyStr(this.x402Fetch) THEN "x402Fetch" ELSE "fetch", "GET",
            this.baseUrl \o "/workflow-state/" \o executionId,
            "Content-Type" :> "application/json", Undefined)

StateRequest(executionId) ==
    Request("fetch", "GET", this.baseUrl \o "/workflow-state/" \o executionId,
            "Content-Type" :> "application/json", Undefined)

\* a classification that reads the payload's success flag before the HTTP status
StateResult_FlagFirst(response) ==
    LET data == response.json
    IN  IF ~TruthyBoolProp(data, "success")
        THEN Throw("Error", "Failed to get workflow state: "
                                \o OrElse(data, "error", "Unknown error"))
        ELSE IF ~response.ok
             THEN Throw("Error", "Failed to get workflow state: " \o ToString(response.status)
                                     \o " - " \o response.text)
             ELSE Return(Prop("executionId", data, "executionId")
                         @@ Prop("workflowId", data, "workflowId")
                         @@ Prop("ipfsCid", data, "ipfsCid")
                         @@ Prop("status", data, "status")
                         @@ Prop("data", data, "data"))

StateResult(response) ==
    IF ~response.ok
    THEN Throw("Error", "Failed to get workflow state: " \o ToString(response.status)
                            \o " - " \o response.text)
    ELSE LET data == response.json
         IN  IF ~TruthyBoolProp(data, "success")
             THEN Throw("Error", "Failed to get workflow state: "
                                     \o OrElse(data, "error", "Unknown error"))
             ELSE Return(Prop("executionId", data, "executionId")
                         @@ Prop("workflowId", data, "workflowId")
                         @@ Prop("ipfsCid", data, "ipfsCid")
                         @@ Prop("status", data, "status")
                         @@ Prop("data", data, "data"))

(***************************************************************************)
(* _pollForCompletion(executionId): the loop condition, what the loop      *)
(* body makes of a polled state, and the error after the loop.             *)
(***************************************************************************)
\* a loop condition that is off by one
LoopContinues_OffByOne(n) == n <= this.maxPollAttempts

LoopContinues(n) == n < this.maxPollAttempts

\* reading a property of an undefined value
CannotRead(f) ==
    Throw("TypeError", "Cannot read properties of undefined (reading '" \o f \o "')")

\* a loop body that returns any state but a "processing" one
PollStep_ReturnsUnlessProcessing(s) ==
    IF Has(s, "status") /\ s.status # "processing" THEN Return(s) ELSE Undefined

\* a loop body that rejects a status it does not know
PollStep_ThrowsOnUnknown(s) ==
    IF Has(s, "status") /\ s.status = "completed"
    THEN Return(s)
    ELSE IF Has(s, "status") /\ s.status = "processing"
         THEN Undefined
         ELSE Throw("Error", "Workflow execution failed: Unknown error")

\* Return(s): return s; a Throw: throw it; Undefined: sleep and go round again
PollStep(s) ==
    IF Has(s, "status") /\ s.status = "completed"
    THEN Return(s)
    ELSE IF Has(s, "status") /\ s.status = "failed"
         THEN IF ~Has(s, "data")
              THEN CannotRead("error")
              ELSE Throw("Error", "Workflow execution failed: "
                                      \o OrElse(s.data, "error", "Unknown error"))
         ELSE Undefined

TimeoutError ==
    Throw("Error", "Workflow execution timeout after "
                       \o ToString(this.maxPollAttempts) \o " attempts")

(***************************************************************************)
(* run: the WorkflowResult it builds from execution and the polled result. *)
(***************************************************************************)
\* a projection that reads result.output instead of result.data.output
RunResult_TopLevelOutput(exec, result) ==
    IF ~Has(result, "data")
    THEN CannotRead("output")
    ELSE Return(Prop("executionId", exec, "executionId")
                @@ Prop("workflowId", exec, "workflowId")
                @@ Prop("status", result, "status")
                @@ Prop("output", result, "output")
                @@ Prop("ipfsCid", result, "ipfsCid")
                @@ Prop("pieceCid", exec, "pieceCid")
                @@ Prop("provider", exec, "provider")
                @@ Prop("completedTime", result.data, "completedTime"))

\* a projection that keeps the ipfsCid of the submission
RunResult_SubmissionCid(exec, result) ==
    IF ~Has(result, "data")
    THEN CannotRead("output")
    ELSE Return(Prop("executionId", exec, "executionId")
                @@ Prop("workflowId", exec, "workflowId")
                @@ Prop("status", result, "status")
                @@ Prop("output", result.data, "output")
                @@ Prop("ipfsCid", exec, "ipfsCid")
                @@ Prop("pieceCid", exec, "pieceCid")
                @@ Prop("provider", exec, "provider")
                @@ Prop("completedTime", result.data, "completedTime"))

RunResult(exec, result) ==
    IF ~Has(result, "data")
    THEN CannotRead("output")
    ELSE Return(Prop("executionId", exec, "executionId")
                @@ Prop("workflowId", exec, "workflowId")
                @@ Prop("status", result, "status")
                @@ Prop("output", result.data, "output")
                @@ Prop("ipfsCid", result, "ipfsCid")
                @@ Prop("pieceCid", exec, "pieceCid")
                @@ Prop("provider", exec, "provider")
                @@ Prop("completedTime", result.data, "completedTime"))

(***************************************************************************)
(* The inputs: the options a client is constructed with and the arguments  *)
(* of the calls made on it.                                                *)
(***************************************************************************)
Options ==
    { k @@ b @@ i @@ m :
        k \in {Undefined, "privateKey" :> "0xkey"},
        b \in {Undefined, "baseUrl" :> "http://localhost:3000"},
        i \in {Undefined, "pollInterval" :> 3000},
        m \in {"maxPollAttempts" :> n : n \in 1..MaxPollOption} }

Slugs == {"demo", "top-5-cities-workflow"}

Configs ==
    { i @@ x @@ t :
        i \in {Undefined, "input" :> "{x:1}"},
        x \in {Undefined, "xPayment" :> "", "xPayment" :> "pay-1"},
        t \in {Undefined, "testMode" :> TRUE, "testMode" :> FALSE} }

\* the calls of a program that makes one call on its client
OneCall == {1}

Calls == DOMAIN pc

InitCalls(given, calls) ==
    /\ constructedWith \in given
    /\ this = constructor(constructedWith)
    /\ pc = [c \in calls |-> "idle"]
    /\ args = [c \in calls |-> Undefined]
    /\ execution = [c \in calls |-> Undefined]
    /\ attempts = [c \in calls |-> 0]
    /\ state = [c \in calls |-> Undefined]
    /\ outcome = [c \in calls |-> Undefined]
    /\ log = [c \in calls |-> <<>>]

Init == InitCalls(Options, OneCall)

(***************************************************************************)
(* The steps of a call.                                                    *)
(***************************************************************************)
\* the promise of call c settles with o, its log being lg
Settle(c, o, lg) ==
    /\ pc' = [pc EXCEPT ![c] = "done"]
    /\ outcome' = [outcome EXCEPT ![c] = o]
    /\ log' = [log EXCEPT ![c] = lg]

\* a loop that does not count its attempts
PollLoop_NoIncrement(c, n, exec, lg) ==
    IF LoopContinues(n)
    THEN /\ attempts' = [attempts EXCEPT ![c] = n]
         /\ log' = [log EXCEPT ![c] =
                        Append(lg, StateRequest(Template(exec, "executionId")))]
         /\ pc' = [pc EXCEPT ![c] = "query"]
         /\ outcome' = outcome
    ELSE /\ attempts' = [attempts EXCEPT ![c] = n]
         /\ Settle(c, TimeoutError, lg)

\* a loop whose attempt counter is a field of the client, shared by its calls
PollLoop_SharedCounter(c, n, exec, lg) ==
    IF LoopContinues(n)
    THEN /\ attempts' = [d \in Calls |-> n + 1]
         /\ log' = [log EXCEPT ![c] =
                        Append(lg, StateRequest(Template(exec, "executionId")))]
         /\ pc' = [pc EXCEPT ![c] = "query"]
         /\ outcome' = outcome
    ELSE /\ attempts' = [attempts EXCEPT ![c] = n]
         /\ Settle(c, TimeoutError, lg)

\* a loop that issues its query without waiting for the one before: two
\* queries go out at the head of the loop
PollLoop_DoubleFetch(c, n, exec, lg) ==
    IF LoopContinues(n)
    THEN /\ attempts' = [attempts EXCEPT ![c] = n + 1]
         /\ log' = [log EXCEPT ![c] =
                        Append(Append(lg, StateRequest(Template(exec, "executionId"))),
                               StateRequest(Template(exec, "executionId")))]
         /\ pc' = [pc EXCEPT ![c] = "query"]
         /\ outcome' = outcome
    ELSE /\ attempts' = [attempts EXCEPT ![c] = n]
         /\ Settle(c, TimeoutError, lg)

\* _pollForCompletion at the head of its loop, n attempts made
PollLoop(c, n, exec, lg) ==
    IF LoopContinues(n)
    THEN /\ attempts' = [attempts EXCEPT ![c] = n + 1]
         /\ log' = [log EXCEPT ![c] =
                        Append(lg, StateRequest(Template(exec, "executionId")))]
         /\ pc' = [pc EXCEPT ![c] = "query"]
         /\ outcome' = outcome
    ELSE /\ attempts' = [attempts EXCEPT ![c] = n]
         /\ Settle(c, TimeoutError, lg)

\* a run that keeps the caller's xPayment as the credential of the client
run_KeepsPayment(c, slug, config) ==
    /\ pc[c] = "idle"
    /\ args' = [args EXCEPT ![c] = [op |-> "run", slug |-> slug, config |-> config]]
    /\ IF PaymentMissing(config)
       THEN Settle(c, ConfigurationError, log[c])
       ELSE /\ log' = [log EXCEPT ![c] =
                           Append(@, ExecuteRequest(slug, InputOf(config), config,
                                                    TestModeOf(config)))]
            /\ pc' = [pc EXCEPT ![c] = "submit"]
            /\ outcome' = outcome
    /\ this' = IF TruthyStrProp(config, "xPayment")
               THEN [this EXCEPT !.privateKey = config.xPayment]
               ELSE this
    /\ UNCHANGED <<constructedWith, execution, attempts, state>>

\* run is called: the precondition, then _executeWorkflow up to its fetch
run(c, slug, config) ==
    /\ pc[c] = "idle"
    /\ args' = [args EXCEPT ![c] = [op |-> "run", slug |-> slug, config |-> config]]
    /\ IF PaymentMissing(config)
       THEN Settle(c, ConfigurationError, log[c])
       ELSE /\ log' = [log EXCEPT ![c] =
                           Append(@, ExecuteRequest(slug, InputOf(config), config,
                                                    TestModeOf(config)))]
            /\ pc' = [pc EXCEPT ![c] = "submit"]
            /\ outcome' = outcome
    /\ UNCHANGED <<constructedWith, this, execution, attempts, state>>

\* a submission that is sent again when it fails
submitResponds_Retries(c, response) ==
    /\ pc[c] = "submit"
    /\ LET r == ExecuteResult(response)
           lg == Append(log[c], Response("POST", response))
       IN  IF r.type = "throw"
           THEN /\ log' = [log EXCEPT ![c] = Append(lg, log[c][1])]
                /\ UNCHANGED <<pc, outcome, execution, attempts>>
           ELSE /\ execution' = [execution EXCEPT ![c] = r.value]
                /\ PollLoop(c, 0, r.value, lg)
    /\ UNCHANGED <<constructedWith, this, args, state>>

\* the submission is answered: the rest of _executeWorkflow, then
\* _pollForCompletion up to its first fetch
submitResponds(c, response) ==
    /\ pc[c] = "submit"
    /\ LET r == ExecuteResult(response)
           lg == Append(log[c], Response("POST", response))
       IN  IF r.type = "throw"
           THEN /\ Settle(c, r, lg)
                /\ UNCHANGED <<execution, attempts>>
           ELSE /\ execution' = [execution EXCEPT ![c] = r.value]
                /\ PollLoop(c, 0, r.value, lg)
    /\ UNCHANGED <<constructedWith, this, args, state>>

\* a poll loop that sleeps and tries again when a query fails
queryResponds_RetriesOnError(c, response) ==
    /\ pc[c] = "query"
    /\ LET r == StateResult(response)
           lg == Append(log[c], Response("GET", response))
           step == IF r.type = "throw" THEN Undefined ELSE PollStep(r.value)
       IN  /\ state' = IF r.type = "throw" THEN state ELSE [state EXCEPT ![c] = r.value]
           /\ IF step = Undefined
              THEN /\ log' = [log EXCEPT ![c] = Append(lg, Sleep(this.pollInterval))]
                   /\ pc' = [pc EXCEPT ![c] = "sleep"]
                   /\ outcome' = outcome
              ELSE IF step.type = "throw"
                   THEN Settle(c, step, lg)
                   ELSE Settle(c, RunResult(execution[c], step.value), lg)
    /\ UNCHANGED <<constructedWith, this, args, execution, attempts>>

\* a poll loop that goes round again without sleeping
queryResponds_NoSleep(c, response) ==
    /\ pc[c] = "query"
    /\ LET r == StateResult(response)
           lg == Append(log[c], Response("GET", response))
       IN  IF r.type = "throw"
           THEN /\ Settle(c, r, lg)
                /\ UNCHANGED <<state, attempts>>
           ELSE /\ state' = [state EXCEPT ![c] = r.value]
                /\ LET step == PollStep(r.value)
                   IN  IF step = Undefined
                       THEN PollLoop(c, attempts[c], execution[c], lg)
                       ELSE /\ attempts' = attempts
                            /\ IF step.type = "throw"
                               THEN Settle(c, step, lg)
                               ELSE Settle(c, RunResult(execution[c], step.value), lg)
    /\ UNCHANGED <<constructedWith, this, args, execution>>

\* a poll loop that skips the sleep after its last attempt
queryResponds_NoLastSleep(c, response) ==
    /\ pc[c] = "query"
    /\ LET r == StateResult(response)
           lg == Append(log[c], Response("GET", response))
       IN  IF r.type = "throw"
           THEN /\ Settle(c, r, lg)
                /\ state' = state
           ELSE /\ state' = [state EXCEPT ![c] = r.value]
                /\ LET step == PollStep(r.value)
                   IN  IF step = Undefined
                       THEN IF LoopContinues(attempts[c])
                            THEN /\ log' = [log EXCEPT ![c] =
                                                Append(lg, Sleep(this.pollInterval))]
                                 /\ pc' = [pc EXCEPT ![c] = "sleep"]
                                 /\ outcome' = outcome
                            ELSE Settle(c, TimeoutError, lg)
                       ELSE IF step.type = "throw"
                            THEN Settle(c, step, lg)
                            ELSE Settle(c, RunResult(execution[c], step.value), lg)
    /\ UNCHANGED <<constructedWith, this, args, execution, attempts>>

\* a state query of the poll loop is answered: the rest of _getWorkflowState,
\* the loop body, and on "completed" the rest of run
queryResponds(c, response) ==
    /\ pc[c] = "query"
    /\ LET r == StateResult(response)
           lg == Append(log[c], Response("GET", response))
       IN  IF r.type = "throw"
           THEN /\ Settle(c, r, lg)
                /\ state' = state
           ELSE /\ state' = [state EXCEPT ![c] = r.value]
                /\ LET step == PollStep(r.value)
                   IN  IF step = Undefined
                       THEN /\ log' = [log EXCEPT ![c] = Append(lg, Sleep(this.pollInterval))]
                            /\ pc' = [pc EXCEPT ![c] = "sleep"]
                            /\ outcome' = outcome
                       ELSE IF step.type = "throw"
                            THEN Settle(c, step, lg)
                            ELSE Settle(c, RunResult(execution[c], step.value), lg)
    /\ UNCHANGED <<constructedWith, this, args, execution, attempts>>

\* a loop that queries the executionId of the last polled state
timerFires_FollowsPolledId(c) ==
    /\ pc[c] = "sleep"
    /\ PollLoop(c, attempts[c], state[c], Append(log[c], Wake))
    /\ UNCHANGED <<constructedWith, this, args, execution, state>>

\* the timer of _sleep fires: back to the head of the loop
timerFires(c) ==
    /\ pc[c] = "sleep"
    /\ PollLoop(c, attempts[c], execution[c], Append(log[c], Wake))
    /\ UNCHANGED <<constructedWith, this, args, execution, state>>

\* getState is called: _getWorkflowState up to its fetch
getState(c, executionId) ==
    /\ pc[c] = "idle"
    /\ args' = [args EXCEPT ![c] = [op |-> "getState", executionId |-> executionId]]
    /\ log' = [log EXCEPT ![c] = Append(@, StateRequest(executionId))]
    /\ pc' = [pc EXCEPT ![c] = "getState"]
    /\ UNCHANGED <<constructedWith, this, execution, attempts, state, outcome>>

\* a getState that raises a "failed" state as run does
getStateResponds_ThrowsOnFailed(c, response) ==
    /\ pc[c] = "getState"
    /\ LET r == StateResult(response)
       IN  Settle(c,
                  IF r.type = "return" /\ PollStep(r.value) # Undefined
                        /\ PollStep(r.value).type = "throw"
                  THEN PollStep(r.value) ELSE r,
                  Append(log[c], Response("GET", response)))
    /\ UNCHANGED <<constructedWith, this, args, execution, attempts, state>>

\* the state query of getState is answered
getStateResponds(c, response) ==
    /\ pc[c] = "getState"
    /\ Settle(c, StateResult(response), Append(log[c], Response("GET", response)))
    /\ UNCHANGED <<constructedWith, this, args, execution, attempts, state>>

\* a fetch rejects (a network-level fault): the error propagates to the caller
fetchRejects(c, fault) ==
    /\ pc[c] \in {"submit", "query", "getState"}
    /\ Settle(c, fault, Append(log[c], Rejection(IF pc[c] = "submit" THEN "POST" ELSE "GET")))
    /\ UNCHANGED <<constructedWith, this, args, execution, attempts, state>>

Next ==
    \E c \in Calls :
        \/ \E slug \in Slugs, config \in Configs : run(c, slug, config)
        \/ \E response \in SubmitResponses : submitResponds(c, response)
        \/ \E response \in QueryResponses : queryResponds(c, response)
        \/ timerFires(c)
        \/ \E executionId \in ExecutionIds : getState(c, executionId)
        \/ \E response \in QueryResponses : getStateResponds(c, response)
        \/ \E fault \in Faults : fetchRejects(c, fault)

Spec == Init /\ [][Next]_vars

\* every network call is answered and every timer fires
Respond(c) ==
    \/ \E response \in SubmitResponses : submitResponds(c, response)
    \/ \E response \in QueryResponses : queryResponds(c, response)
    \/ timerFires(c)
    \/ \E response \in QueryResponses : getStateResponds(c, response)

\* a program that makes MaxCalls concurrent run calls on one client, as the
\* README's Promise.all example does
MaxCalls == 2

ConcOptions == { ("privateKey" :> "0xkey") @@ ("maxPollAttempts" :> 2) }
ConcSlugs == { "demo" }
ConcConfigs == { Undefined }
ConcSubmitResponses ==
    { Http(402, "Payment Required", Undefined) }
    \cup { Http(200, "", Handle(id)) : id \in ExecutionIds }
ConcQueryResponses ==
    { Http(500, "Internal Server Error", Undefined),
      Http(200, "", Snapshot("status" :> "processing", "cid-p", "data" :> [status |-> "processing"])),
      Http(200, "", Snapshot("status" :> "completed", "cid-final",
                             "data" :> [status |-> "completed", output |-> "y2", completedTime |-> "t9"])),
      Http(200, "", Snapshot("status" :> "failed", "cid-f",
                             "data" :> [status |-> "failed", error |-> "bad input"])) }

InitConc == InitCalls(ConcOptions, 1..MaxCalls)

NextConc ==
    \E c \in Calls :
        \/ \E slug \in ConcSlugs, config \in ConcConfigs : run(c, slug, config)
        \/ \E response \in ConcSubmitResponses : submitResponds(c, response)
        \/ \E response \in ConcQueryResponses : queryResponds(c, response)
        \/ timerFires(c)
        \/ \E fault \in Faults : fetchRejects(c, fault)

SpecConc == InitConc /\ [][NextConc]_vars

FairSpec == Spec /\ \A c \in OneCall : WF_vars(Respond(c))

\* a program whose client is constructed with a zero or absent pollInterval
\* or maxPollAttempts, making one run whose polls may never become terminal
ZeroOptions ==
    { k @@ i @@ m :
        k \in {"privateKey" :> "0xkey"},
        i \in {Undefined, "pollInterval" :> 0, "pollInterval" :> 3000},
        m \in {Undefined} \cup {"maxPollAttempts" :> n : n \in 0..MaxPollOption} }
ZeroSubmitResponses == { Http(200, "", Handle("e1")) }
ZeroQueryResponses ==
    { Http(200, "", Snapshot("status" :> "processing", "cid-p", "data" :> [status |-> "processing"])),
      Http(200, "", Snapshot("status" :> "completed", "cid-final",
                             "data" :> [status |-> "completed", output |-> "y2", completedTime |-> "t9"])) }

InitZero == InitCalls(ZeroOptions, OneCall)

NextZero ==
    \E c \in Calls :
        \/ \E slug \in ConcSlugs, config \in ConcConfigs : run(c, slug, config)
        \/ \E response \in ZeroSubmitResponses : submitResponds(c, response)
        \/ \E response \in ZeroQueryResponses : queryResponds(c, response)
        \/ timerFires(c)

SpecZero == InitZero /\ [][NextZero]_vars

(***************************************************************************)
(* What the properties read off a call.                                    *)
(***************************************************************************)
IsRun(c) == args[c] # Undefined /\ args[c].op = "run"
IsGetState(c) == args[c] # Undefined /\ args[c].op = "getState"

\* the submission POSTs and the state queries the call has issued
Posts(c) == SelectSeq(log[c], LAMBDA e : e.ev = "request" /\ e.method = "POST")
Queries(c) == SelectSeq(log[c], LAMBDA e : e.ev = "request" /\ e.method = "GET")
\* the state queries that were answered, and those answered with a WorkflowState
Answered(c) == SelectSeq(log[c], LAMBDA e : e.ev = "response" /\ e.to = "GET")
Polled(c) == SelectSeq(log[c], LAMBDA e : e.ev = "response" /\ e.to = "GET" /\ e.good)
Last(c) == log[c][Len(log[c])]

StatusIs(s, v) == Has(s, "status") /\ s.status = v
Thrown(c) == pc[c] = "done" /\ outcome[c].type = "throw"
Returned(c) == pc[c] = "done" /\ outcome[c].type = "return"

(***************************************************************************)
(* C1: a run on a client constructed without a private key, given no       *)
(* xPayment, has failed with the configuration error as soon as it is      *)
(* called, and its log holds no request at all: no submission POST and no  *)
(* state query.                                                            *)
(***************************************************************************)
C1_NoPaymentNoNetwork ==
    \A c \in Calls :
        (IsRun(c) /\ this.privateKey = NULL /\ ~Has(args[c].config, "xPayment"))
            => /\ Thrown(c)
               /\ outcome[c] = ConfigurationError
               /\ log[c] = <<>>

C1_Witness ==
    \E c \in Calls :
        /\ IsRun(c) /\ this.privateKey = NULL /\ ~Has(args[c].config, "xPayment")
        /\ Thrown(c)

ExecutionErrors ==
    { Throw("Error", "Workflow execution failed: " \o text) :
        text \in {"Unknown error"}
                 \cup { s.data.error : s \in { f \in FailedStates :
                                                Has(f, "data") /\ Has(f.data, "error") } } }

C3_FailedStopsPolling ==
    \A c \in Calls :
        (IsRun(c) /\ StatusIs(state[c], "failed"))
            => /\ Thrown(c)
               /\ Len(Queries(c)) = Len(Polled(c))
               /\ outcome[c] \in ExecutionErrors

(***************************************************************************)
(* C4: when maxPollAttempts state queries of a run have been answered with *)
(* a state and the last one is neither "completed" nor "failed", the run   *)
(* issues no further query: it is in its last sleep or has failed with the *)
(* timeout error naming maxPollAttempts; and a run that failed with the    *)
(* timeout error issued exactly maxPollAttempts queries, each answered     *)
(* with a state.                                                           *)
(***************************************************************************)
C4_TimeoutMessage ==
    "Workflow execution timeout after " \o ToString(this.maxPollAttempts) \o " attempts"

C4_TimeoutAfterMaxAttempts ==
    \A c \in Calls :
        IsRun(c)
            => /\ ( /\ Len(Polled(c)) = this.maxPollAttempts
                    /\ ~StatusIs(state[c], "completed")
                    /\ ~StatusIs(state[c], "failed") )
                    => /\ Len(Queries(c)) = this.maxPollAttempts
                       /\ \/ pc[c] = "sleep"
                          \/ Thrown(c) /\ outcome[c] = Throw("Error", C4_TimeoutMessage)
               /\ (Thrown(c) /\ outcome[c].message = C4_TimeoutMessage)
                    => /\ Len(Queries(c)) = this.maxPollAttempts
                       /\ Len(Polled(c)) = this.maxPollAttempts

C4_Witness ==
    \E c \in Calls :
        /\ IsRun(c) /\ Thrown(c)
        /\ outcome[c].message = "Workflow execution timeout after 3 attempts"
        /\ Len(Queries(c)) = this.maxPollAttempts

(***************************************************************************)
(* C5: a run has returned a WorkflowResult only if its last polled state   *)
(* has status "completed", that state being the answer to its last query;  *)
(* the status of the result is "completed".  So after a "failed" state, a  *)
(* timeout or any error there is no result.                                *)
(***************************************************************************)
C5_ResultOnlyFromCompleted ==
    \A c \in Calls :
        (IsRun(c) /\ Returned(c))
            => /\ StatusIs(state[c], "completed")
               /\ StatusIs(outcome[c].value, "completed")
               /\ Last(c).ev = "response" /\ Last(c).to = "GET" /\ Last(c).good

C5_Witness ==
    \E c \in Calls :
        /\ IsRun(c) /\ Returned(c)
        /\ outcome[c].value.status = "completed"

(***************************************************************************)
(* C6: a run that passes the payment precondition (the client has a        *)
(* private key or the call gives an xPayment) has issued exactly one       *)
(* submission POST, its first request, whatever happened since; the body   *)
(* of the POST carries the slug and the input the run was given.           *)
(***************************************************************************)
C6_ExactlyOneSubmission ==
    \A c \in Calls :
        ( /\ IsRun(c)
          /\ TruthyStr(this.privateKey) \/ TruthyStrProp(args[c].config, "xPayment") )
            => /\ Len(Posts(c)) = 1
               /\ log[c][1] = Posts(c)[1]
               /\ Posts(c)[1].body.slug = args[c].slug
               /\ Has(args[c].config, "input")
                    => Posts(c)[1].body.input = args[c].config.input

C6_Witness ==
    \E c \in Calls :
        /\ IsRun(c) /\ Thrown(c)
        /\ Len(Posts(c)) = 1
        /\ Len(Queries(c)) = 2
        /\ Last(c).ev = "response" /\ ~Last(c).good
        /\ Posts(c)[1].body = [slug |-> "demo", input |-> "{x:1}"]

(***************************************************************************)
(* C7: getState issues one state query and nothing else (no submission, no *)
(* second query, no sleep), never fails with the configuration error, also *)
(* on a client without a private key, and when its query is answered with  *)
(* a state it returns that state, with the status the answer reports,      *)
(* "processing" and "failed" included.                                     *)
(***************************************************************************)
C7_GetStateSingleShot ==
    /\ [](\A c \in Calls :
            IsGetState(c)
                => /\ Len(Queries(c)) = 1
                   /\ Len(Posts(c)) = 0
                   /\ log[c][1].url = this.baseUrl \o "/workflow-state/" \o args[c].executionId
                   /\ Len(log[c]) <= 2
                   /\ pc[c] = "done" <=> Len(log[c]) = 2
                   /\ pc[c] = "done" => outcome[c] # ConfigurationError)
    /\ [][\A c \in Calls : \A response \in QueryResponses :
            (getStateResponds(c, response) /\ Delivered(response))
                => /\ outcome'[c].type = "return"
                   /\ Prop("status", outcome'[c].value, "status")
                        = Prop("status", response.json, "status")]_vars

C7_Witness ==
    \E c \in Calls :
        /\ IsGetState(c) /\ Returned(c)
        /\ this.privateKey = NULL
        /\ StatusIs(outcome[c].value, "failed")
        /\ Len(Queries(c)) = 1

(***************************************************************************)
(* C8: a state query of a run answered with a failure (a non-success HTTP  *)
(* status, or success: false) is the last event of the run: the run has    *)
(* failed with the error of that answer, and the queries issued are the j  *)
(* queries answered so far, whatever maxPollAttempts allows.               *)
(***************************************************************************)
C8_QueryFailureAborts ==
    \A c \in Calls :
        IsRun(c)
            => \A i \in DOMAIN log[c] :
                 (log[c][i].ev = "response" /\ log[c][i].to = "GET" /\ ~log[c][i].good)
                    => /\ i = Len(log[c])
                       /\ Thrown(c)
                       /\ outcome[c] = StateResult(log[c][i].response)
                       /\ Len(Queries(c)) = Len(Answered(c))

C8_Witness ==
    \E c \in Calls :
        /\ IsRun(c) /\ Thrown(c)
        /\ Len(Queries(c)) = 2
        /\ Last(c).ev = "response" /\ Last(c).to = "GET" /\ ~Last(c).good
        /\ Len(Queries(c)) < this.maxPollAttempts
        /\ outcome[c].message = "Failed to get workflow state: 500 - Internal Server Error"

(***************************************************************************)
(* C9: a submission answered with a failure (a non-success HTTP status, or *)
(* success: false) is the last event of the run: the run has failed with   *)
(* the error of that answer and has issued no state query.  A run that has *)
(* issued a state query had its submission answered with success first.    *)
(***************************************************************************)
C9_SubmissionFailureNoPolling ==
    \A c \in Calls :
        IsRun(c)
            => /\ \A i \in DOMAIN log[c] :
                    (log[c][i].ev = "response" /\ log[c][i].to = "POST" /\ ~log[c][i].good)
                        => /\ i = Len(log[c])
                           /\ Thrown(c)
                           /\ outcome[c] = ExecuteResult(log[c][i].response)
                           /\ Len(Queries(c)) = 0
               /\ Len(Queries(c)) > 0
                    => /\ log[c][2].ev = "response" /\ log[c][2].to = "POST" /\ log[c][2].good
                       /\ log[c][3] = Queries(c)[1]

C9_Witness ==
    \E c \in Calls :
        /\ IsRun(c) /\ Thrown(c)
        /\ Len(Posts(c)) = 1
        /\ Last(c).ev = "response" /\ Last(c).to = "POST" /\ ~Last(c).good
        /\ outcome[c].message = "Workflow execution failed: unknown slug"
        /\ Len(Queries(c)) = 0

(***************************************************************************)
(* C10: when every network call is answered and every timer fires, a run   *)
(* that was called ends; it ends with one outcome, a returned result or a  *)
(* thrown error, which never changes afterwards, nor does its log; and no  *)
(* run ever issues more than maxPollAttempts state queries.                *)
(***************************************************************************)
C10_RunTerminates ==
    /\ [](\A c \in Calls :
            /\ Len(Queries(c)) <= this.maxPollAttempts
            /\ pc[c] = "done" <=> outcome[c] # Undefined
            /\ pc[c] = "done" => outcome[c].type \in {"return", "throw"})
    /\ [][\A c \in Calls :
            pc[c] = "done" => /\ pc'[c] = "done"
                              /\ outcome'[c] = outcome[c]
                              /\ log'[c] = log[c]]_vars
    /\ \A c \in OneCall : IsRun(c) ~> pc[c] = "done"

C10_Witness ==
    \E c \in Calls :
        /\ IsRun(c) /\ pc[c] = "done"
        /\ Len(Polled(c)) = this.maxPollAttempts
        /\ this.maxPollAttempts = MaxPollOption
        /\ outcome[c].type = "throw"


(***************************************************************************)
(* C11: the submission of a client without a signing credential goes       *)
(* through plain fetch with an X-Payment header equal to the xPayment the  *)
(* run was given; the submission of a client with a signing credential     *)
(* goes through the signed transport and carries no X-Payment header from  *)
(* the core, also when the run was given an xPayment.                      *)
(***************************************************************************)
C11_PaymentHeaderOnSubmission ==
    \A c \in Calls :
        (IsRun(c) /\ Len(Posts(c)) > 0)
            => LET post == Posts(c)[1]
               IN  IF this.privateKey = NULL
                   THEN /\ post.via = "fetch"
                        /\ Has(args[c].config, "xPayment")
                        /\ Has(post.headers, "X-Payment")
                        /\ post.headers["X-Payment"] = args[c].config.xPayment
                   ELSE /\ post.via = "x402Fetch"
                        /\ ~Has(post.headers, "X-Payment")

C11_Witness ==
    \E c \in Calls :
        /\ IsRun(c) /\ Len(Posts(c)) = 1
        /\ this.privateKey # NULL
        /\ TruthyStrProp(args[c].config, "xPayment")
        /\ Posts(c)[1].via = "x402Fetch"
        /\ Posts(c)[1].headers = ("Content-Type" :> "application/json")

(***************************************************************************)
(* C12: every state query, of the poll loop of run and of getState, on     *)
(* every client, goes through plain fetch and carries no X-Payment header: *)
(* its only header is Content-Type.                                        *)
(***************************************************************************)
C12_NoPaymentOnQueries ==
    \A c \in Calls :
        \A i \in DOMAIN Queries(c) :
            /\ Queries(c)[i].via = "fetch"
            /\ ~Has(Queries(c)[i].headers, "X-Payment")
            /\ DOMAIN Queries(c)[i].headers = {"Content-Type"}

C12_Witness ==
    \E c \in Calls :
        /\ IsRun(c)
        /\ this.x402Fetch # NULL
        /\ TruthyStrProp(args[c].config, "xPayment")
        /\ Len(Queries(c)) = 2
        /\ Queries(c)[2].via = "fetch"


(***************************************************************************)
(* C13: the submission goes to <baseUrl>/test-workflow when testMode is    *)
(* true or omitted, and to <baseUrl>/workflow/<slug>, with the slug the    *)
(* run was given, when testMode is false.                                  *)
(***************************************************************************)
C13_EndpointByTestMode ==
    \A c \in Calls :
        (IsRun(c) /\ Len(Posts(c)) > 0)
            => Posts(c)[1].url =
                   IF ~Has(args[c].config, "testMode") \/ args[c].config.testMode
                   THEN this.baseUrl \o "/test-workflow"
                   ELSE this.baseUrl \o "/workflow/" \o args[c].slug


(***************************************************************************)
(* C14: the WorkflowResult a run returned has executionId, workflowId,     *)
(* pieceCid and provider equal to those of the answer to its submission,   *)
(* and ipfsCid, status, output and completedTime equal to those of its     *)
(* last polled state (output and completedTime from the data payload); it  *)
(* has no other field.  So the ipfsCid of the submission and the values of *)
(* earlier polls are not in it.                                            *)
(***************************************************************************)
C14_ResultProjection ==
    \A c \in Calls :
        (IsRun(c) /\ Returned(c))
            => LET submitted == log[c][2].response.json
                   final == state[c]
                   result == outcome[c].value
                   Same(f, o, g) == Prop(f, result, f) = Prop(f, o, g)
               IN  /\ log[c][2].ev = "response" /\ log[c][2].to = "POST"
                   /\ Same("executionId", submitted, "executionId")
                   /\ Same("workflowId", submitted, "workflowId")
                   /\ Same("pieceCid", submitted, "pieceCid")
                   /\ Same("provider", submitted, "provider")
                   /\ Same("ipfsCid", final, "ipfsCid")
                   /\ Same("status", final, "status")
                   /\ Same("output", final.data, "output")
                   /\ Same("completedTime", final.data, "completedTime")
                   /\ DOMAIN result \subseteq
                        {"executionId", "workflowId", "status", "output", "ipfsCid",
                         "pieceCid", "provider", "completedTime"}

C14_Witness ==
    \E c \in Calls :
        /\ IsRun(c) /\ Returned(c)
        /\ Len(Polled(c)) = 3
        /\ log[c][2].response.json.ipfsCid = "cid-submit-e2"
        /\ outcome[c].value =
             [executionId |-> "e2", workflowId |-> "w-e2", status |-> "completed",
              output |-> "y2", ipfsCid |-> "cid-final", pieceCid |-> "piece-e2",
              provider |-> "provider-e2", completedTime |-> "t9"]


(***************************************************************************)
(* C15: for concurrent run calls on one client, under every interleaving   *)
(* of their responses and timers, a step of one call leaves the position,  *)
(* arguments, execution handle, attempt counter, polled state, outcome and *)
(* traffic of every other call unchanged, and each call's position,        *)
(* handle, number of state queries and outcome are those its own           *)
(* arguments, its own responses and the client configuration determine,    *)
(* as when it runs alone.                                                  *)
(***************************************************************************)
CallVars(c) == <<pc[c], args[c], execution[c], attempts[c], state[c], outcome[c], log[c]>>

\* where a run stands, by its own traffic alone
OwnPc(c) ==
    IF args[c] = Undefined THEN "idle"
    ELSE IF Len(log[c]) = 0 THEN "done"
    ELSE IF Last(c).ev = "request"
         THEN (IF Last(c).method = "POST" THEN "submit" ELSE "query")
    ELSE IF Last(c).ev = "sleep" THEN "sleep"
    ELSE "done"

\* the handle a run holds, by the answer to its own submission alone
OwnExecution(c) ==
    IF Len(log[c]) >= 2 /\ log[c][2].ev = "response" /\ log[c][2].good
    THEN ExecuteResult(log[c][2].response).value
    ELSE Undefined

\* how a finished run settled, by its own traffic and its own last state alone
OwnOutcome(c) ==
    IF Len(log[c]) = 0 THEN ConfigurationError
    ELSE IF Last(c).ev = "rejection" THEN CHOOSE fault \in Faults : TRUE
    ELSE IF Last(c).ev = "wake" THEN TimeoutError
    ELSE IF Last(c).to = "POST" THEN ExecuteResult(Last(c).response)
    ELSE IF ~Last(c).good THEN StateResult(Last(c).response)
    ELSE IF PollStep(state[c]).type = "throw" THEN PollStep(state[c])
    ELSE RunResult(OwnExecution(c), PollStep(state[c]).value)

C15_ConcurrentRunsIndependent ==
    /\ [][\E c \in Calls : \A d \in Calls \ {c} : CallVars(d)' = CallVars(d)]_vars
    /\ [](\A c \in Calls :
            /\ pc[c] = OwnPc(c)
            /\ execution[c] = OwnExecution(c)
            /\ attempts[c] = Len(Queries(c))
            /\ Len(Queries(c)) <= this.maxPollAttempts
            /\ \A i \in DOMAIN Queries(c) :
                 Queries(c)[i].url = this.baseUrl \o "/workflow-state/"
                                        \o OwnExecution(c).executionId
            /\ (state[c] = Undefined) <=> (Len(Polled(c)) = 0)
            /\ pc[c] = "done" => outcome[c] = OwnOutcome(c)
            /\ pc[c] # "done" => outcome[c] = Undefined
            /\ (pc[c] = "done" /\ Len(log[c]) > 0 /\ Last(c).ev = "wake")
                 => Len(Queries(c)) = this.maxPollAttempts)

\* two calls that finished differently, on different executions, after a
\* different number of state queries
C15_Witness ==
    /\ Returned(1) /\ Len(Queries(1)) = 2 /\ outcome[1].value.executionId = "e1"
    /\ Thrown(2) /\ Len(Queries(2)) = 1 /\ execution[2].executionId = "e2"
    /\ outcome[2].message = "Workflow execution failed: bad input"


(***************************************************************************)
(* C16: when a polled state of a run has status "failed", the run has      *)
(* failed with the execution error whose message carries the data.error of *)
(* that state, and "Unknown error" when the state has no data.error or no  *)
(* data payload: never an error of another kind.                           *)
(***************************************************************************)
C16_FailedCarriesDataError ==
    \A c \in Calls :
        (IsRun(c) /\ StatusIs(state[c], "failed"))
            => /\ Thrown(c)
               /\ outcome[c].name = "Error"
               /\ outcome[c].message =
                    "Workflow execution failed: "
                        \o (IF Has(state[c], "data")
                            THEN OrElse(state[c].data, "error", "Unknown error")
                            ELSE "Unknown error")


(***************************************************************************)
(* C17: the configuration of the client (privateKey and the signed         *)
(* transport made from it, baseUrl, pollInterval, maxPollAttempts) is what *)
(* the constructor made of its options, in every state, and no step of a   *)
(* run or getState call, successful or failing, changes it.                *)
(***************************************************************************)
C17_ConfigurationFixed ==
    /\ [](this = constructor(constructedWith))
    /\ [][this' = this]_vars

\* a run that slept and returned and left the configuration as constructed
C17_Witness ==
    \E c \in Calls :
        /\ IsRun(c) /\ Returned(c)
        /\ Len(Queries(c)) = 2
        /\ Has(args[c].config, "xPayment")
        /\ constructedWith = ("privateKey" :> "0xkey") @@ ("baseUrl" :> "http://localhost:3000")
                              @@ ("pollInterval" :> 3000) @@ ("maxPollAttempts" :> 2)
        /\ this = [privateKey |-> "0xkey", baseUrl |-> "http://localhost:3000",
                   pollInterval |-> 3000, maxPollAttempts |-> 2,
                   x402Fetch |-> "wrapFetchWithPayment"]


(***************************************************************************)
(* C18: a client constructed without a baseUrl option has the base URL     *)
(* "http://localhost:3000", and its test-mode submissions and its state    *)
(* queries go to URLs under it.                                            *)
(***************************************************************************)
C18_DefaultBaseUrl ==
    ~Has(constructedWith, "baseUrl")
        => /\ this.baseUrl = "http://localhost:3000"
           /\ \A c \in Calls :
                /\ \A i \in DOMAIN Posts(c) :
                     TestModeOf(args[c].config)
                        => Posts(c)[i].url = "http://localhost:3000/test-workflow"
                /\ \A i \in DOMAIN Queries(c) :
                     \E id \in ExecutionIds :
                        Queries(c)[i].url = "http://localhost:3000/workflow-state/" \o id


(***************************************************************************)
(* C19: within one run, every state query after the first follows, in this *)
(* order, the previous query, its answer with a state, a sleep of the poll *)
(* interval started after that answer, and the end of that sleep; and the  *)
(* step that issues it is the end of that sleep, taken while the state of  *)
(* the previous answer, neither "completed" nor "failed", is the run's     *)
(* polled state.                                                           *)
(***************************************************************************)
NonTerminal(s) == ~StatusIs(s, "completed") /\ ~StatusIs(s, "failed")

C19_QueryAfterSleep ==
    /\ [](\A c \in Calls : \A i \in DOMAIN log[c] :
            (IsRun(c) /\ i > 3 /\ log[c][i].ev = "request")
                => /\ log[c][i - 1] = Wake
                   /\ log[c][i - 2] = Sleep(this.pollInterval)
                   /\ log[c][i - 3].ev = "response" /\ log[c][i - 3].to = "GET"
                   /\ log[c][i - 3].good
                   /\ log[c][i - 4].ev = "request" /\ log[c][i - 4].method = "GET")
    /\ [](\A c \in Calls :
            pc[c] = "sleep"
                => /\ Last(c) = Sleep(this.pollInterval)
                   /\ state[c] # Undefined /\ NonTerminal(state[c]))
    /\ [][\A c \in Calls :
            (IsRun(c) /\ Len(Queries(c)) >= 1 /\ Len(log'[c]) > Len(log[c])
                /\ log'[c][Len(log'[c])].ev = "request")
                => /\ pc[c] = "sleep"
                   /\ state'[c] = state[c]
                   /\ Len(log'[c]) = Len(log[c]) + 2]_vars

C19_Witness ==
    \E c \in Calls :
        /\ IsRun(c) /\ Len(Queries(c)) = 3
        /\ this.pollInterval = 3000
        /\ Len(log[c]) = 11
        /\ log[c][5] = Sleep(3000) /\ log[c][6] = Wake
        /\ log[c][9] = Sleep(3000) /\ log[c][10] = Wake
        /\ log[c][11] = Queries(c)[3]


(***************************************************************************)
(* C20: within one run at most one request is outstanding at any time:     *)
(* every request is issued when all the requests before it have been       *)
(* answered (by a response or a rejection), so no query is in flight with  *)
(* another query or with the submission; a request is outstanding exactly  *)
(* while the run awaits its fetch; and the first state query is issued     *)
(* right after the submission was answered with success.                   *)
(***************************************************************************)
\* the requests among the first n events of the call not answered by then
Outstanding(c, n) ==
    Cardinality({ i \in 1..n : log[c][i].ev = "request" })
        - Cardinality({ i \in 1..n : log[c][i].ev \in {"response", "rejection"} })

C20_OneRequestOutstanding ==
    \A c \in Calls :
        IsRun(c)
            => /\ \A n \in 0..Len(log[c]) : Outstanding(c, n) \in {0, 1}
               /\ \A i \in DOMAIN log[c] :
                    log[c][i].ev = "request" => Outstanding(c, i - 1) = 0
               /\ Outstanding(c, Len(log[c])) = 1 <=> pc[c] \in {"submit", "query"}
               /\ Len(Queries(c)) > 0
                    => /\ log[c][1].ev = "request" /\ log[c][1].method = "POST"
                       /\ log[c][2].ev = "response" /\ log[c][2].to = "POST"
                       /\ log[c][2].good
                       /\ log[c][3] = Queries(c)[1]

\* a run with its third query in flight, the submission and two queries answered
C20_Witness ==
    \E c \in Calls :
        /\ IsRun(c) /\ pc[c] = "query"
        /\ Len(Queries(c)) = 3 /\ Len(Answered(c)) = 2 /\ Len(Posts(c)) = 1
        /\ Outstanding(c, Len(log[c])) = 1


(***************************************************************************)
(* C21: when a state query of a run is answered with a state whose status  *)
(* is neither "completed" nor "failed" ("processing", a value the client   *)
(* does not know, or no status), the run neither returns nor throws on     *)
(* that attempt: it starts a sleep of the poll interval, the attempt stays *)
(* counted, and at the end of the sleep it issues the next query if fewer  *)
(* than maxPollAttempts were made and throws the timeout error otherwise.  *)
(***************************************************************************)
C21_NonTerminalSleeps ==
    /\ [][\A c \in Calls : \A response \in QueryResponses :
            (queryResponds(c, response) /\ Delivered(response)
                /\ NonTerminal(response.json))
                => /\ pc'[c] = "sleep"
                   /\ outcome'[c] = Undefined
                   /\ log'[c] = Append(Append(log[c], Response("GET", response)),
                                       Sleep(this.pollInterval))
                   /\ attempts'[c] = attempts[c]
                   /\ attempts'[c] = Len(Queries(c)')]_vars
    /\ [][\A c \in Calls :
            timerFires(c)
                => IF attempts[c] < this.maxPollAttempts
                   THEN /\ pc'[c] = "query"
                        /\ attempts'[c] = attempts[c] + 1
                        /\ Len(Queries(c)') = Len(Queries(c)) + 1
                   ELSE /\ pc'[c] = "done"
                        /\ outcome'[c] = TimeoutError
                        /\ Len(Queries(c)') = this.maxPollAttempts]_vars

\* a run whose second poll gave a state with no status and that issued its
\* third query
C21_Witness ==
    \E c \in Calls :
        /\ IsRun(c) /\ pc[c] = "query"
        /\ Len(Queries(c)) = 3 /\ Len(Polled(c)) = 2
        /\ ~Has(state[c], "status")


(***************************************************************************)
(* C22: a call whose submission or state query was answered with a         *)
(* non-success HTTP status has failed with the transport error carrying    *)
(* the status code and the raw body, whatever the body holds (also         *)
(* {success: false, error: ...}); a call answered with an HTTP success     *)
(* whose payload has success false has failed with the error carrying the  *)
(* payload's error string, "Unknown error" when it has none.  The prefix   *)
(* of the message tells submission from state query.                       *)
(***************************************************************************)
ErrorPrefix(method) ==
    IF method = "POST" THEN "Workflow execution failed: "
    ELSE "Failed to get workflow state: "

C22_HttpStatusFirst ==
    \A c \in Calls : \A i \in DOMAIN log[c] :
        (log[c][i].ev = "response" /\ ~log[c][i].good)
            => LET answer == log[c][i].response
                   prefix == ErrorPrefix(log[c][i].to)
               IN  /\ i = Len(log[c])
                   /\ Thrown(c)
                   /\ outcome[c].name = "Error"
                   /\ outcome[c].message =
                        IF ~answer.ok
                        THEN prefix \o ToString(answer.status) \o " - " \o answer.text
                        ELSE IF Has(answer.json, "error") /\ answer.json.error # ""
                             THEN prefix \o answer.json.error
                             ELSE prefix \o "Unknown error"

\* a state query answered 404 with the body {success: false, error: gone}
C22_Witness ==
    \E c \in Calls :
        /\ IsRun(c) /\ Thrown(c)
        /\ Len(Queries(c)) = 2
        /\ Last(c).ev = "response" /\ Last(c).to = "GET" /\ ~Last(c).good
        /\ Last(c).response.status = 404
        /\ Last(c).response.json = [success |-> FALSE, error |-> "gone"]
        /\ outcome[c].message = "Failed to get workflow state: 404 - {success:false,error:gone}"


(***************************************************************************)
(* C23: every state query of a run, at every attempt, goes to              *)
(* <baseUrl>/workflow-state/<id> where <id> is the executionId of the      *)
(* answer to the run's own submission, also when the polled states carry a *)
(* different executionId; and the WorkflowResult the run returns has that  *)
(* executionId.                                                            *)
(***************************************************************************)
C23_QueriesTargetSubmittedId ==
    \A c \in Calls :
        (IsRun(c) /\ Len(Queries(c)) > 0)
            => LET submitted == log[c][2].response.json
               IN  /\ \A i \in DOMAIN Queries(c) :
                        Queries(c)[i].url =
                            this.baseUrl \o "/workflow-state/" \o submitted.executionId
                   /\ Returned(c) => outcome[c].value.executionId = submitted.executionId

\* a run submitted as e2 whose polled states all said e1
C23_Witness ==
    \E c \in Calls :
        /\ IsRun(c) /\ Returned(c)
        /\ Len(Queries(c)) = 3
        /\ log[c][2].response.json.executionId = "e2"
        /\ state[c].executionId = "e1"
        /\ outcome[c].value.executionId = "e2"


(***************************************************************************)
(* C24: the sleeps of a run are as many as its state queries answered with *)
(* a non-terminal state, each of the poll interval and each right after    *)
(* such an answer: none before the first query, none after an answer with  *)
(* a "completed" or "failed" state, none after a failed query.  A sleep    *)
(* also follows the maxPollAttempts-th non-terminal answer, so a run that  *)
(* threw the timeout error slept, and woke, maxPollAttempts times.         *)
(***************************************************************************)
Sleeps(c) == SelectSeq(log[c], LAMBDA e : e.ev = "sleep")
Wakes(c) == SelectSeq(log[c], LAMBDA e : e.ev = "wake")

\* the answered polls of the call that were not terminal: of its polled
\* states only the last one can be terminal
NonTerminalPolls(c) ==
    IF state[c] # Undefined /\ ~NonTerminal(state[c])
    THEN Len(Polled(c)) - 1
    ELSE Len(Polled(c))

C24_SleepPerNonTerminalPoll ==
    \A c \in Calls :
        IsRun(c)
            => /\ Len(Sleeps(c)) = NonTerminalPolls(c)
               /\ \A i \in DOMAIN log[c] :
                    /\ log[c][i].ev = "sleep"
                         => /\ i > 4
                            /\ log[c][i] = Sleep(this.pollInterval)
                            /\ log[c][i - 1].ev = "response" /\ log[c][i - 1].to = "GET"
                            /\ log[c][i - 1].good
                    /\ (log[c][i].ev = "response" /\ log[c][i].to = "GET" /\ ~log[c][i].good)
                         => i = Len(log[c])
               /\ (state[c] # Undefined /\ ~NonTerminal(state[c]))
                    => /\ pc[c] = "done"
                       /\ Last(c).ev = "response" /\ Last(c).good
               /\ (Thrown(c) /\ outcome[c] = TimeoutError)
                    => /\ Len(Sleeps(c)) = this.maxPollAttempts
                       /\ Len(Wakes(c)) = this.maxPollAttempts
                       /\ Len(Polled(c)) = this.maxPollAttempts
                       /\ Last(c) = Wake

\* a run that timed out after three non-terminal polls and three sleeps
C24_Witness ==
    \E c \in Calls :
        /\ IsRun(c) /\ Thrown(c) /\ outcome[c] = TimeoutError
        /\ this.maxPollAttempts = 3
        /\ Len(Sleeps(c)) = 3 /\ Len(Polled(c)) = 3
        /\ log[c][Len(log[c]) - 1] = Sleep(this.pollInterval)


(***************************************************************************)
(* C25: a client constructed with maxPollAttempts 0 (or none) has          *)
(* maxPollAttempts 150, and one constructed with pollInterval 0 (or none)  *)
(* has pollInterval 2000: neither is ever 0; an option n >= 1 is kept as   *)
(* n.  A run issues no more queries than that effective bound, sleeps the  *)
(* effective interval, and one that threw the timeout error issued exactly *)
(* that many queries: 150 for the option 0, n for the option n >= 1.       *)
(***************************************************************************)
C25_ZeroOptionIsDefault ==
    LET bound == IF Has(constructedWith, "maxPollAttempts")
                      /\ constructedWith.maxPollAttempts # 0
                 THEN constructedWith.maxPollAttempts ELSE 150
        interval == IF Has(constructedWith, "pollInterval")
                         /\ constructedWith.pollInterval # 0
                    THEN constructedWith.pollInterval ELSE 2000
    IN  /\ this.maxPollAttempts = bound
        /\ this.pollInterval = interval
        /\ \A c \in Calls :
             IsRun(c)
                => /\ Len(Queries(c)) <= bound
                   /\ \A i \in DOMAIN Sleeps(c) : Sleeps(c)[i].ms = interval
                   /\ (Thrown(c) /\ Last(c) = Wake)
                        => /\ Len(Queries(c)) = bound
                           /\ outcome[c].message =
                                "Workflow execution timeout after " \o ToString(bound)
                                    \o " attempts"

\* a client constructed with maxPollAttempts 0 and pollInterval 0 whose run
\* timed out after 150 queries
C25_Witness ==
    \E c \in Calls :
        /\ Has(constructedWith, "maxPollAttempts") /\ constructedWith.maxPollAttempts = 0
        /\ Has(constructedWith, "pollInterval") /\ constructedWith.pollInterval = 0
        /\ IsRun(c) /\ Thrown(c)
        /\ Len(Queries(c)) = 150
        /\ Len(Sleeps(c)) = 150 /\ Sleeps(c)[150].ms = 2000
        /\ outcome[c].message = "Workflow execution timeout after 150 attempts"

====
